---- MODULE Spec2Model ----
(***************************************************************************)
(* The WebP conversion service: POST /convert (convertToWebP), the encoder *)
(* path resolution (getCwebpPath) and the output-name derivation           *)
(* (filenameWithoutExt), in the                                            *)
(* four variants the repository holds:                                     *)
(*   "main"    src/main.go 1-227     getCwebpPath, default bare "cwebp"    *)
(*   "railway" src/main.go 229-367   getCwebpPath, default install path    *)
(*   "legacy"  src/unnamed/part_000  LIBWEBP_PATH required, quality fixed  *)
(*   "apt"     src/unnamed/part_001  bare "cwebp" always                   *)
(* Strings the code inspects character by character (file names) are       *)
(* sequences of one-character strings; file system paths to the encoder    *)
(* are records [abs, comps] of path components.                            *)
(***************************************************************************)
EXTENDS Integers, Sequences, FiniteSets, TLC

\* ------------------------------------------------------------------ bounds
NumReq == 2       \* requests in flight at the same time
NumDirs == 2      \* names os.MkdirTemp can draw for "webp-convert-*"
MaxNameLen == 4   \* longest file name of the name-derivation specification

Req == 1..NumReq
Dirs == 1..NumDirs

\* ------------------------------------------------------------ file names
NameChars == {"a", "b", "."}

RECURSIVE SeqsUpTo(_, _)
SeqsUpTo(S, n) ==
  IF n = 0 THEN {<<>>}
  ELSE LET shorter == SeqsUpTo(S, n - 1)
       IN  shorter \cup {Append(s, c) : s \in {t \in shorter : Len(t) = n - 1}, c \in S}

\* header.Filename is never empty: a part without a file name is no file part.
Names == SeqsUpTo(NameChars, MaxNameLen) \ {<<>>}

WebpExt == <<".", "w", "e", "b", "p">>

\* filepath.Ext: the suffix from the last dot of the last path element.
RECURSIVE ExtFrom(_, _)
ExtFrom(path, i) ==
  IF i < 1 \/ path[i] = "/" THEN <<>>
  ELSE IF path[i] = "." THEN SubSeq(path, i, Len(path))
  ELSE ExtFrom(path, i - 1)

\* A slip: the scan runs from the front and cuts at the first dot.
RECURSIVE ExtFirstDotFrom(_, _)
ExtFirstDotFrom(path, i) ==
  IF i > Len(path) THEN <<>>
  ELSE IF path[i] = "." THEN SubSeq(path, i, Len(path))
  ELSE ExtFirstDotFrom(path, i + 1)

ExtFirstDot(path) == ExtFirstDotFrom(path, 1)

Ext(path) == ExtFrom(path, Len(path))

filenameWithoutExt(filename) ==
  SubSeq(filename, 1, Len(filename) - Len(Ext(filename)))

OutputFilename(filename) == filenameWithoutExt(filename) \o WebpExt

\* ------------------------------------------------------- encoder location
Path(abs, comps) == [abs |-> abs, comps |-> comps]

EmptyPath == Path(FALSE, <<>>)              \* the empty string
BareCwebp == Path(FALSE, <<"cwebp">>)       \* "cwebp", looked up on PATH
RailwayCwebp == Path(TRUE, <<"app", "libwebp", "bin", "cwebp">>)
BinCwebp == Path(FALSE, <<"bin", "cwebp">>)
WorkDir == Path(TRUE, <<"srv">>)            \* what os.Getwd returns

\* strings.HasPrefix(p, "/")
IsAbs(p) == p.abs

\* filepath.Clean on components: "." is dropped, ".." removes the element
\* before it (at the root of an absolute path it is dropped).
RECURSIVE CleanFrom(_, _, _, _)
CleanFrom(abs, comps, i, acc) ==
  IF i > Len(comps) THEN acc
  ELSE LET c == comps[i]
           next == IF c = "." THEN acc
                   ELSE IF c = ".."
                        THEN IF acc # <<>> /\ acc[Len(acc)] # ".."
                             THEN SubSeq(acc, 1, Len(acc) - 1)
                             ELSE IF abs THEN acc ELSE Append(acc, c)
                        ELSE Append(acc, c)
       IN  CleanFrom(abs, comps, i + 1, next)

\* filepath.Join of two elements: empty elements are ignored, the result is
\* cleaned, and only the first element can make it absolute.
Join(a, b) ==
  IF a = EmptyPath THEN Path(b.abs, CleanFrom(b.abs, b.comps, 1, <<>>))
  ELSE Path(a.abs, CleanFrom(a.abs, a.comps \o b.comps, 1, <<>>))

\* The values of LIBWEBP_PATH: unset or empty, "/app/libwebp", "./libwebp".
EnvUnset == EmptyPath
EnvAbs == Path(TRUE, <<"app", "libwebp">>)
EnvRel == Path(FALSE, <<".", "libwebp">>)
EnvValues == {EnvUnset, EnvAbs, EnvRel}

Variants == {"main", "railway", "legacy", "apt"}

Resolved(p) == [ok |-> TRUE, path |-> p, err |-> ""]
ResolveError(msg) == [ok |-> FALSE, path |-> EmptyPath, err |-> msg]

\* getCwebpPath of src/main.go (both copies; they differ in the default).
getCwebpPath(env, cwdOk, default) ==
  IF env # EmptyPath
  THEN IF IsAbs(env)
       THEN Resolved(Join(env, BinCwebp))
       ELSE IF ~cwdOk
            THEN ResolveError("failed to get working directory")
            ELSE Resolved(Join(Join(WorkDir, env), BinCwebp))
  ELSE Resolved(default)

\* The inline resolution of the legacy handler: the override is required and
\* is always joined to the working directory.
legacyCwebpPath(env, cwdOk) ==
  IF env = EmptyPath
  THEN ResolveError("LIBWEBP_PATH environment variable not set")
  ELSE IF ~cwdOk
       THEN ResolveError("Failed to get working directory")
       ELSE Resolved(Join(Join(WorkDir, env), BinCwebp))

ResolveFor(v, env, cwdOk) ==
  CASE v = "main" -> getCwebpPath(env, cwdOk, BareCwebp)
    [] v = "railway" -> getCwebpPath(env, cwdOk, RailwayCwebp)
    [] v = "legacy" -> legacyCwebpPath(env, cwdOk)
    [] v = "apt" -> Resolved(BareCwebp)

\* ---------------------------------------------------------------- requests
NoQuality == [present |-> FALSE, value |-> ""]
Quality(s) == [present |-> TRUE, value |-> s]
QueryValues == {NoQuality, Quality("0"), Quality("100")}

\* c.DefaultQuery(key, default)
DefaultQuery(q, default) == IF q.present THEN q.value ELSE default

QualityFor(v, q) ==
  IF v = "legacy" THEN "80" ELSE DefaultQuery(q, "80")

\* File names the handler is driven with: "a.b", "a.b.b", "a", "a.webp",
\* ".webp", "." and "..".
Filenames ==
  {<<"a", ".", "b">>, <<"a", ".", "b", ".", "b">>, <<"a">>, <<"a">> \o WebpExt,
   WebpExt, <<".">>, <<".", ".">>}

\* The names concurrent requests share: "a.b" and "a.webp".
SharedFilenames == {<<"a", ".", "b">>, <<"a">> \o WebpExt}

Raw(bytes) == [fmt |-> "raw", bytes |-> bytes, q |-> ""]

NoImage ==
  [hasImage |-> FALSE, filename |-> <<>>, bytes |-> <<>>, query |-> NoQuality]

\* The uploads of request r: its bytes are its own, or it is empty.
Uploads(r) ==
  [hasImage : {TRUE}, filename : Filenames, bytes : {<<>>, <<r>>},
   query : QueryValues]

Requests(r) == {NoImage} \cup Uploads(r)

\* The query of request r when every request's input is its own.
QueryOf(r) ==
  CASE r % 3 = 1 -> NoQuality
    [] r % 3 = 2 -> Quality("0")
    [] OTHER -> Quality("100")

SharedUpload(r, f) ==
  [hasImage |-> TRUE, filename |-> f, bytes |-> <<r>>, query |-> QueryOf(r)]

\* ---------------------------------------------------------------- responses
JSON(status, obj) ==
  [status |-> status, ctype |-> "application/json", json |-> obj,
   data |-> <<>>, disposition |-> <<>>]

Data(status, ctype, content, disposition) ==
  [status |-> status, ctype |-> ctype, json |-> {},
   data |-> <<content>>, disposition |-> disposition]

H(msg) == {<<"error", msg>>}

Attachment(name) == <<"attachment; filename=">> \o name

\* -------------------------------------------------------------- file system
\* filepath.Join(tempDir, name) for a name without separators: "." is the
\* directory itself and ".." its parent, both directories.
FilePath(d, name) == [dir |-> d, name |-> name]

IsDirectory(p) == p.name \in {<<".">>, <<".", ".">>}

\* What cwebp writes for an input at a quality.
Enc(content, q) == [fmt |-> "webp", bytes |-> content.bytes, q |-> q]

InstalledAll ==
  {BareCwebp, RailwayCwebp, Path(TRUE, <<"srv", "libwebp", "bin", "cwebp">>)}

ExecSets == {{}, InstalledAll}

VARIABLES
  variant,      \* which copy of the handler serves
  libwebpPath,  \* os.Getenv("LIBWEBP_PATH")
  execs,        \* the paths that hold an executable encoder
  req,          \* the request each handler is called with
  pc,           \* each handler's position
  tempDir,      \* each handler's tempDir (0: none)
  cwebpPath,    \* each handler's cwebpPath
  quality,      \* each handler's quality
  resp,         \* what each handler wrote to its response
  dirs,         \* temporary directories on disk, with the request that made each
  files,        \* files on disk: path -> [content, by]
  execLog,      \* encoder invocations of each request
  nm, out, pcx  \* the name-derivation specification's input, output, position

vars ==
  <<variant, libwebpPath, execs, req, pc, tempDir, cwebpPath, quality, resp,
    dirs, files, execLog, nm, out, pcx>>

envVars == <<variant, libwebpPath, execs, req>>
nameVars == <<nm, out, pcx>>

inputPath(r) == FilePath(tempDir[r], req[r].filename)
outputFilename(r) == OutputFilename(req[r].filename)
outputPath(r) == FilePath(tempDir[r], outputFilename(r))

Respond(r, w) == resp' = [resp EXCEPT ![r] = Append(@, w)]
Goto(r, l) == pc' = [pc EXCEPT ![r] = l]

InitHandlers ==
  /\ tempDir = [r \in Req |-> 0]
  /\ cwebpPath = [r \in Req |-> EmptyPath]
  /\ quality = [r \in Req |-> ""]
  /\ resp = [r \in Req |-> <<>>]
  /\ dirs = <<>>
  /\ files = <<>>
  /\ execLog = [r \in Req |-> <<>>]

\* One request in flight, any deployment, any request.
Init ==
  /\ variant \in Variants
  /\ libwebpPath \in EnvValues
  /\ execs \in ExecSets
  /\ \E q \in Requests(1) : req = [r \in Req |-> IF r = 1 THEN q ELSE NoImage]
  /\ pc = [r \in Req |-> IF r = 1 THEN "FormFile" ELSE "idle"]
  /\ InitHandlers
  /\ nm = <<>> /\ out = <<>> /\ pcx = "off"

\* Every request in flight at once, each with no image or with its own bytes
\* and query under one shared file name.
InitShared ==
  /\ variant \in Variants
  /\ libwebpPath \in EnvValues
  /\ execs = InstalledAll
  /\ \E f \in SharedFilenames :
       req \in [Req -> {NoImage} \cup {SharedUpload(r, f) : r \in Req}]
  /\ \A r \in Req : req[r].hasImage => req[r].bytes = <<r>>
  /\ pc = [r \in Req |-> "FormFile"]
  /\ InitHandlers
  /\ nm = <<>> /\ out = <<>> /\ pcx = "off"

\* A slip: the error of FormFile is not tested.
FormFileUnchecked(r) ==
  /\ pc[r] = "FormFile"
  /\ Goto(r, "MkdirTemp")
  /\ UNCHANGED <<envVars, nameVars, tempDir, cwebpPath, quality, resp, dirs, files, execLog>>

\* c.Request.FormFile("image") and the 400 of its error.
FormFile(r) ==
  /\ pc[r] = "FormFile"
  /\ \/ /\ ~req[r].hasImage
        /\ Respond(r, JSON(400, H("No image file provided")))
        /\ Goto(r, "done")
     \/ /\ req[r].hasImage
        /\ Goto(r, "MkdirTemp")
        /\ UNCHANGED resp
  /\ UNCHANGED <<envVars, nameVars, tempDir, cwebpPath, quality, dirs, files, execLog>>

\* A slip: the directory name is fixed, not drawn fresh by os.MkdirTemp.
MkdirShared(r) ==
  /\ pc[r] = "MkdirTemp"
  /\ \/ /\ tempDir' = [tempDir EXCEPT ![r] = 1]
        /\ dirs' = (IF 1 \in DOMAIN dirs THEN dirs ELSE dirs @@ (1 :> r))
        /\ Goto(r, "Create")
        /\ UNCHANGED resp
     \/ /\ Respond(r, JSON(500, H("Failed to create temp directory")))
        /\ Goto(r, "done")
        /\ UNCHANGED <<tempDir, dirs>>
  /\ UNCHANGED <<envVars, nameVars, cwebpPath, quality, files, execLog>>

\* os.MkdirTemp("", "webp-convert-*"): a directory that did not exist, or an
\* error; the removal is deferred only once the directory exists.
MkdirTemp(r) ==
  /\ pc[r] = "MkdirTemp"
  /\ \/ /\ \E d \in Dirs \ DOMAIN dirs :
             /\ tempDir' = [tempDir EXCEPT ![r] = d]
             /\ dirs' = dirs @@ (d :> r)
        /\ Goto(r, "Create")
        /\ UNCHANGED resp
     \/ /\ Respond(r, JSON(500, H("Failed to create temp directory")))
        /\ Goto(r, "done")
        /\ UNCHANGED <<tempDir, dirs>>
  /\ UNCHANGED <<envVars, nameVars, cwebpPath, quality, files, execLog>>

\* os.Create(inputPath): the file exists and is empty, or an error (always
\* one when the path is a directory).
Create(r) ==
  /\ pc[r] = "Create"
  /\ \/ /\ ~IsDirectory(inputPath(r))
        /\ files' = [p \in DOMAIN files \cup {inputPath(r)} |->
                       IF p = inputPath(r)
                       THEN [content |-> Raw(<<>>), by |-> r]
                       ELSE files[p]]
        /\ Goto(r, "Copy")
        /\ UNCHANGED resp
     \/ /\ Respond(r, JSON(500, H("Failed to save uploaded file")))
        /\ Goto(r, "RemoveAll")
        /\ UNCHANGED files
  /\ UNCHANGED <<envVars, nameVars, tempDir, cwebpPath, quality, dirs, execLog>>

\* io.Copy(inputFile, file): the upload's bytes are in the file, or an error.
Copy(r) ==
  /\ pc[r] = "Copy"
  /\ \/ /\ files' = [files EXCEPT ![inputPath(r)] =
                       [content |-> Raw(req[r].bytes), by |-> r]]
        /\ Goto(r, "Resolve")
        /\ UNCHANGED resp
     \/ /\ Respond(r, JSON(500, H("Failed to copy uploaded file")))
        /\ Goto(r, "RemoveAll")
        /\ UNCHANGED files
  /\ UNCHANGED <<envVars, nameVars, tempDir, cwebpPath, quality, dirs, execLog>>

\* The encoder location and the quality argument.
Resolve(r) ==
  /\ pc[r] = "Resolve"
  /\ \E cwdOk \in BOOLEAN :
       LET res == ResolveFor(variant, libwebpPath, cwdOk)
       IN  \/ /\ res.ok
              /\ cwebpPath' = [cwebpPath EXCEPT ![r] = res.path]
              /\ quality' = [quality EXCEPT ![r] = QualityFor(variant, req[r].query)]
              /\ Goto(r, "Exec")
              /\ UNCHANGED resp
           \/ /\ ~res.ok
              /\ Respond(r, JSON(500, H(res.err)))
              /\ Goto(r, "RemoveAll")
              /\ UNCHANGED <<cwebpPath, quality>>
  /\ UNCHANGED <<envVars, nameVars, tempDir, dirs, files, execLog>>

Invocation(r, started) ==
  [path |-> cwebpPath[r], q |-> quality[r], input |-> inputPath(r),
   output |-> outputPath(r), started |-> started]

ConvertError(details) ==
  JSON(500, {<<"error", "Failed to convert image">>, <<"details", details>>})

\* A slip: the error of CombinedOutput is not tested, so a failed launch or
\* a failed run goes on to read the output file.
ExecUnchecked(r) ==
  /\ pc[r] = "Exec"
  /\ execLog' = [execLog EXCEPT ![r] = Append(@, Invocation(r, cwebpPath[r] \in execs))]
  /\ files' = [p \in DOMAIN files \cup {outputPath(r)} |->
                 IF p = outputPath(r)
                 THEN [content |-> Enc(Raw(req[r].bytes), quality[r]), by |-> r]
                 ELSE files[p]]
  /\ Goto(r, "ReadFile")
  /\ UNCHANGED <<envVars, nameVars, tempDir, cwebpPath, quality, dirs, resp>>

\* exec.Command(cwebpPath, "-q", quality, inputPath, "-o", outputPath)
\* .CombinedOutput(): the launch fails when no executable is there; a
\* launched encoder writes the output file and exits zero, which takes a
\* decodable (non-empty) input, or exits non-zero with diagnostics, having
\* left a truncated output file or none.
Exec(r) ==
  /\ pc[r] = "Exec"
  /\ \/ /\ cwebpPath[r] \notin execs
        /\ execLog' = [execLog EXCEPT ![r] = Append(@, Invocation(r, FALSE))]
        /\ Respond(r, ConvertError(""))
        /\ Goto(r, "RemoveAll")
        /\ UNCHANGED files
     \/ /\ cwebpPath[r] \in execs
        /\ inputPath(r) \in DOMAIN files
        /\ files[inputPath(r)].content.bytes # <<>>
        /\ execLog' = [execLog EXCEPT ![r] = Append(@, Invocation(r, TRUE))]
        /\ files' = [p \in DOMAIN files \cup {outputPath(r)} |->
                       IF p = outputPath(r)
                       THEN [content |-> Enc(files[inputPath(r)].content, quality[r]),
                             by |-> r]
                       ELSE files[p]]
        /\ Goto(r, "ReadFile")
        /\ UNCHANGED resp
     \/ /\ cwebpPath[r] \in execs
        /\ execLog' = [execLog EXCEPT ![r] = Append(@, Invocation(r, TRUE))]
        /\ Respond(r, ConvertError("cwebp: error"))
        /\ Goto(r, "RemoveAll")
        /\ \E partial \in BOOLEAN :
             files' = IF partial
                      THEN [p \in DOMAIN files \cup {outputPath(r)} |->
                              IF p = outputPath(r)
                              THEN [content |-> Raw(<<>>), by |-> r]
                              ELSE files[p]]
                      ELSE files
  /\ UNCHANGED <<envVars, nameVars, tempDir, cwebpPath, quality, dirs>>

\* A slip: the read error's branch lacks its return, so the image follows
\* the JSON error.
ReadFileNoReturn(r) ==
  /\ pc[r] = "ReadFile"
  /\ \/ /\ outputPath(r) \in DOMAIN files
        /\ Respond(r, Data(200, "image/webp", files[outputPath(r)].content,
                           Attachment(outputFilename(r))))
     \/ resp' = [resp EXCEPT ![r] =
                   @ \o <<JSON(500, H("Failed to read converted file")),
                          Data(200, "image/webp", Raw(<<>>),
                               Attachment(outputFilename(r)))>>]
  /\ Goto(r, "RemoveAll")
  /\ UNCHANGED <<envVars, nameVars, tempDir, cwebpPath, quality, dirs, files, execLog>>

\* os.ReadFile(outputPath) and the response: the file's bytes as image/webp
\* with the attachment header, or the 500 of a read error.
ReadFile(r) ==
  /\ pc[r] = "ReadFile"
  /\ \/ /\ outputPath(r) \in DOMAIN files
        /\ Respond(r, Data(200, "image/webp", files[outputPath(r)].content,
                           Attachment(outputFilename(r))))
     \/ Respond(r, JSON(500, H("Failed to read converted file")))
  /\ Goto(r, "RemoveAll")
  /\ UNCHANGED <<envVars, nameVars, tempDir, cwebpPath, quality, dirs, files, execLog>>

\* A slip: os.Remove in place of os.RemoveAll, which fails on a directory
\* that is not empty and removes nothing then.
RemoveOnly(d) ==
  IF \E p \in DOMAIN files : p.dir = d
  THEN dirs' = dirs /\ files' = files
  ELSE /\ dirs' = [e \in DOMAIN dirs \ {d} |-> dirs[e]]
       /\ files' = files

\* os.RemoveAll(d): the directory and everything below it.
RemoveAll(d) ==
  /\ dirs' = [e \in DOMAIN dirs \ {d} |-> dirs[e]]
  /\ files' = [p \in {q \in DOMAIN files : q.dir # d} |-> files[p]]

\* The deferred os.RemoveAll(tempDir), run as the handler returns.
Cleanup(r) ==
  /\ pc[r] = "RemoveAll"
  /\ RemoveAll(tempDir[r])
  /\ Goto(r, "done")
  /\ UNCHANGED <<envVars, nameVars, tempDir, cwebpPath, quality, resp, execLog>>

\* The name derivation on its own: outputFilename for any file name.
InitName ==
  /\ variant = "main" /\ libwebpPath = EnvUnset /\ execs = {}
  /\ req = [r \in Req |-> NoImage]
  /\ pc = [r \in Req |-> "idle"]
  /\ InitHandlers
  /\ nm \in Names /\ out = <<>> /\ pcx = "in"

Derive ==
  /\ pcx = "in"
  /\ out' = OutputFilename(nm)
  /\ pcx' = "out"
  /\ UNCHANGED <<envVars, pc, tempDir, cwebpPath, quality, resp, dirs, files,
                 execLog, nm>>

NextName == Derive

Next ==
  \E r \in Req :
    \/ FormFile(r)
    \/ MkdirTemp(r)
    \/ Create(r)
    \/ Copy(r)
    \/ Resolve(r)
    \/ Exec(r)
    \/ ReadFile(r)
    \/ Cleanup(r)

Spec == Init /\ [][Next]_vars

SpecShared == InitShared /\ [][Next]_vars

SpecName == InitName /\ [][NextName]_vars

\* ------------------------------------------------------------------ claims
Done(r) == pc[r] = "done"
Live(r) == pc[r] \in {"Create", "Copy", "Resolve", "Exec", "ReadFile", "RemoveAll"}
Keys(w) == {p[1] : p \in w.json}
Errors(w) == {p[2] : p \in {q \in w.json : q[1] = "error"}}
HasDot(s) == \E i \in 1..Len(s) : s[i] = "."

StagingErrors ==
  {"Failed to create temp directory", "Failed to save uploaded file",
   "Failed to copy uploaded file"}

ResolutionErrors ==
  {"failed to get working directory", "Failed to get working directory",
   "LIBWEBP_PATH environment variable not set"}

\* C1: once a handler has returned, on whichever exit path, no temporary
\* directory and no file that its request created is left on disk.
C1_NothingLeftAfterReturn ==
  \A r \in Req :
    Done(r) =>
      /\ \A d \in DOMAIN dirs : dirs[d] # r
      /\ \A p \in DOMAIN files : files[p].by # r

\* A handler returned after staging its upload and running the encoder.
C1_Witness ==
  \E r \in Req :
    /\ Done(r)
    /\ tempDir[r] # 0
    /\ execLog[r] # <<>>
    /\ resp[r][1].status = 200

\* C2: requests in flight with one file name never share a directory; each
\* one's directory and files stay its own and intact until its own cleanup,
\* whatever the others do, and each 200 body is the encoding of its own
\* upload at its own quality.
C2_RequestsIsolated ==
  /\ \A r1, r2 \in Req :
       r1 # r2 /\ Live(r1) /\ Live(r2) => tempDir[r1] # tempDir[r2]
  /\ \A p \in DOMAIN files : p.dir \in DOMAIN dirs /\ dirs[p.dir] = files[p].by
  /\ \A r \in Req :
       /\ Live(r) => tempDir[r] \in DOMAIN dirs /\ dirs[tempDir[r]] = r
       /\ pc[r] \in {"Resolve", "Exec"} =>
            /\ inputPath(r) \in DOMAIN files
            /\ files[inputPath(r)] = [content |-> Raw(req[r].bytes), by |-> r]
       /\ pc[r] = "ReadFile" =>
            /\ outputPath(r) \in DOMAIN files
            /\ files[outputPath(r)] =
                 [content |-> [fmt |-> "webp", bytes |-> <<r>>, q |-> quality[r]],
                  by |-> r]
       /\ \A i \in DOMAIN resp[r] :
            resp[r][i].status = 200 =>
              resp[r][i].data =
                <<[fmt |-> "webp", bytes |-> <<r>>,
                   q |-> IF req[r].query.present /\ variant # "legacy"
                         THEN req[r].query.value ELSE "80"]>>

\* One request has its 200 and has cleaned up while another, with the same
\* file name, still holds its output file.
C2_Witness ==
  \E r1, r2 \in Req :
    /\ r1 # r2
    /\ req[r1].hasImage /\ req[r2].hasImage
    /\ req[r1].filename = req[r2].filename
    /\ Done(r1) /\ resp[r1][1].status = 200
    /\ pc[r2] = "ReadFile"

\* C3: a request without an image field gets 400 with the body
\* {"error":"No image file provided"}, and makes no temporary directory and
\* no encoder invocation.
C3_MissingImage ==
  \A r \in Req :
    ~req[r].hasImage /\ pc[r] # "idle" =>
      /\ tempDir[r] = 0
      /\ \A d \in DOMAIN dirs : dirs[d] # r
      /\ execLog[r] = <<>>
      /\ pc[r] \in {"FormFile", "done"}
      /\ Done(r) =>
           resp[r] = <<[status |-> 400, ctype |-> "application/json",
                        json |-> {<<"error", "No image file provided">>},
                        data |-> <<>>, disposition |-> <<>>]>>

C3_Witness == \E r \in Req : ~req[r].hasImage /\ Done(r)

SuccessCase(r, w) ==
  /\ w.status = 200
  /\ w.ctype = "image/webp"
  /\ w.json = {}
  /\ w.disposition = <<"attachment; filename=">> \o outputFilename(r)
  /\ req[r].hasImage
  /\ execLog[r] # <<>>
  /\ w.data = <<[fmt |-> "webp", bytes |-> req[r].bytes,
                 q |-> execLog[r][Len(execLog[r])].q]>>

FailureCase(r, w) ==
  /\ w.ctype = "application/json"
  /\ w.data = <<>>
  /\ w.disposition = <<>>
  /\ "error" \in Keys(w)
  /\ Keys(w) \subseteq {"error", "details"}
  /\ w.status \in {400, 500}
  /\ w.status = 400 <=> ~req[r].hasImage
  /\ "details" \in Keys(w) <=>
       (execLog[r] # <<>> /\ Errors(w) = {"Failed to convert image"})

\* C4: a request gets exactly one response: the image (200, image/webp, the
\* attachment header, the bytes of the output file) or a JSON error (400
\* only without an image, else 500, "details" only when the encoder failed)
\* with no image bytes.
C4_OneResponse ==
  \A r \in Req :
    /\ Len(resp[r]) <= 1
    /\ Done(r) => Len(resp[r]) = 1
    /\ pc[r] \in {"FormFile", "MkdirTemp", "Create", "Copy", "Resolve", "Exec",
                  "ReadFile", "idle"} => resp[r] = <<>>
    /\ \A i \in DOMAIN resp[r] :
         /\ SuccessCase(r, resp[r][i]) \/ FailureCase(r, resp[r][i])
         /\ ~(SuccessCase(r, resp[r][i]) /\ FailureCase(r, resp[r][i]))

\* A request answered with the image after another path could have failed.
C4_Witness ==
  \E r \in Req : Done(r) /\ Len(resp[r]) = 1 /\ resp[r][1].status = 200

\* C5 (as claimed): the value after -q is the quality query parameter when
\* one is supplied, and "80" when it is omitted.
C5_QualityPassedThrough ==
  \A r \in Req :
    \A i \in DOMAIN execLog[r] :
      execLog[r][i].q =
        (IF req[r].query.present THEN req[r].query.value ELSE "80")

\* C6: the output name is the file name up to its last dot, exclusive, with
\* ".webp" appended; a name without a dot gets ".webp" appended.
C6_ExtensionReplaced ==
  pcx = "out" =>
    /\ HasDot(nm) =>
         \E i \in 1..Len(nm) :
           /\ nm[i] = "."
           /\ \A j \in (i + 1)..Len(nm) : nm[j] # "."
           /\ out = SubSeq(nm, 1, i - 1) \o <<".", "w", "e", "b", "p">>
    /\ ~HasDot(nm) => out = nm \o <<".", "w", "e", "b", "p">>

\* A name with two dots and text after the last was derived.
C6_Witness ==
  /\ pcx = "out"
  /\ \E i, j \in 1..Len(nm) : i < j /\ nm[i] = "." /\ nm[j] = "." /\ j < Len(nm)

\* C7 (as claimed): an image field that is present but empty is refused
\* like a missing one, with a 4xx, and the encoder is not invoked. (A 500
\* of a temporary-directory, staging or resolution fault is let pass here.)
C7_EmptyImageRefused ==
  \A r \in Req :
    req[r].hasImage /\ req[r].bytes = <<>> =>
      /\ execLog[r] = <<>>
      /\ \A i \in DOMAIN resp[r] :
           \/ resp[r][i].status \in 400..499
           \/ Errors(resp[r][i]) \subseteq StagingErrors \cup ResolutionErrors

\* The deployment's encoder location is unresolved: whatever os.Getwd
\* returns, resolution fails or its result is no executable.
Unresolved ==
  \A cwdOk \in BOOLEAN :
    LET res == ResolveFor(variant, libwebpPath, cwdOk)
    IN  ~res.ok \/ res.path \notin execs

ReachedEncoderStep(r) ==
  \/ pc[r] \in {"Exec", "ReadFile"}
  \/ execLog[r] # <<>>
  \/ \E i \in DOMAIN resp[r] : Errors(resp[r][i]) \cap ResolutionErrors # {}

\* C8 (as claimed): with the encoder location unresolved, a request that
\* gets to the encoder step fails with a configuration error and 500, and
\* no execution of the encoder is attempted.
C8_NoExecutionWhenUnresolved ==
  Unresolved =>
    \A r \in Req :
      ReachedEncoderStep(r) =>
        /\ execLog[r] = <<>>
        /\ \A i \in DOMAIN resp[r] :
             /\ resp[r][i].status = 500
             /\ Errors(resp[r][i]) \subseteq ResolutionErrors

\* C8 (amended): with the encoder location unresolved no request gets a
\* 200, and one that gets to the encoder step gets 500: with the resolution
\* error and no invocation when resolution fails; after an attempted launch
\* that fails, with "Failed to convert image" and details, when the resolved
\* location is no executable.
C8_UnresolvedFails ==
  \A r \in Req :
    /\ Unresolved =>
         /\ \A i \in DOMAIN resp[r] : resp[r][i].status # 200
         /\ pc[r] # "ReadFile"
         /\ ReachedEncoderStep(r) /\ Done(r) => resp[r][1].status = 500
    /\ \A i \in DOMAIN resp[r] :
         Errors(resp[r][i]) \cap ResolutionErrors # {} => execLog[r] = <<>>
    /\ \A i \in DOMAIN execLog[r] :
         execLog[r][i].path \notin execs =>
           /\ ~execLog[r][i].started
           /\ resp[r] = <<[status |-> 500, ctype |-> "application/json",
                           json |-> {<<"error", "Failed to convert image">>,
                                     <<"details", "">>},
                           data |-> <<>>, disposition |-> <<>>]>>

\* A launch was attempted at a location that holds no executable.
C8_Witness ==
  /\ Unresolved
  /\ \E r \in Req :
       /\ Done(r)
       /\ execLog[r] # <<>>
       /\ ~execLog[r][1].started

\* C9 (as claimed): an absolute override gives override/bin/cwebp; a
\* relative one gives cwd/override/bin/cwebp or an error when the working
\* directory is unknown; only without an override is the default used.
C9_FirstMatchResolution ==
  \A r \in Req :
    /\ pc[r] = "Exec" =>
         /\ libwebpPath = EnvAbs =>
              cwebpPath[r] = Path(TRUE, <<"app", "libwebp", "bin", "cwebp">>)
         /\ libwebpPath = EnvRel =>
              cwebpPath[r] = Path(TRUE, <<"srv", "libwebp", "bin", "cwebp">>)
         /\ libwebpPath = EnvUnset => cwebpPath[r] \in {BareCwebp, RailwayCwebp}
    /\ \A i \in DOMAIN resp[r] :
         Errors(resp[r][i]) \cap ResolutionErrors # {} => libwebpPath = EnvRel

\* C10 (as claimed): the input and the output of a launched encoder are two
\* distinct files of the request's directory, whatever the uploaded file name.
C10_InputOutputDistinct ==
  \A r \in Req :
    \A i \in DOMAIN execLog[r] :
      execLog[r][i].started =>
        /\ execLog[r][i].input # execLog[r][i].output
        /\ execLog[r][i].input.dir = tempDir[r]
        /\ execLog[r][i].output.dir = tempDir[r]

====
